---- MODULE Spec2Model ----
(***************************************************************************)
(* A model of src/app.py: the numeric-string cleaner clean_value, the      *)
(* three chart renderers (bar_chart, pie_chart, top_vpe_por_medio), the    *)
(* POST / handler generar_graficos and the GET /grafico/<nombre> handler   *)
(* servir_grafico, over the shared output directory GRAPH_DIR.             *)
(*                                                                         *)
(* Python strings are sequences of one-character strings.  A Python float  *)
(* is a record: a finite value m * 10^e (kept normalised: m has no         *)
(* trailing zero, zero is m = 0, e = 0), an infinity with its sign, or     *)
(* nan.  Decimal strings of up to 15 significant digits denote distinct    *)
(* doubles, so equality and order of the finite records are those of the   *)
(* doubles; the sums of the model are over integer values, which doubles   *)
(* add exactly.                                                            *)
(***************************************************************************)
EXTENDS Integers, Sequences, FiniteSets, TLC

VARIABLES
    value,      \* clean_value: the argument
    result,     \* clean_value: what it returned, Pending before the call
    articulos,  \* the ranking: the article records
    ordenadas,  \* the ranking: noticias_ordenadas, Pending before
    llamada,    \* one renderer call: the function and its argument
    efecto,     \* one renderer call: what it did, Pending before
    graficos,   \* GRAPH_DIR: file name -> the request that wrote it, 0 absent
    post,       \* the last POST / and its response
    get,        \* the last GET /grafico/<nombre> since the last POST
    hilos,      \* concurrent server: each request's position in the handler
    ultimo      \* concurrent server: file name -> the last request to save it

vars ==
    <<value, result, articulos, ordenadas, llamada, efecto, graficos, post,
      get, hilos, ultimo>>

\* ------------------------------------------------------------------------
\* Strings
\* ------------------------------------------------------------------------

Digits == {"0", "1", "2", "3", "4", "5", "6", "7", "8", "9"}

DigitVal(c) ==
    CASE c = "0" -> 0 [] c = "1" -> 1 [] c = "2" -> 2 [] c = "3" -> 3
      [] c = "4" -> 4 [] c = "5" -> 5 [] c = "6" -> 6 [] c = "7" -> 7
      [] c = "8" -> 8 [] c = "9" -> 9

DigitChar(d) ==
    CASE d = 0 -> "0" [] d = 1 -> "1" [] d = 2 -> "2" [] d = 3 -> "3"
      [] d = 4 -> "4" [] d = 5 -> "5" [] d = 6 -> "6" [] d = 7 -> "7"
      [] d = 8 -> "8" [] d = 9 -> "9"

\* The element of a singleton.  Only({F(x) : x \in {e}}) is F(e) with e
\* evaluated once.
Only(S) == CHOOSE x \in S : TRUE

\* c in s
Contains(s, c) == \E i \in 1..Len(s) : s[i] = c

\* s.find(c), 1-based; 0 when c is not in s
Find(s, c) ==
    IF Contains(s, c)
    THEN CHOOSE i \in 1..Len(s) : s[i] = c /\ \A j \in 1..(i - 1) : s[j] # c
    ELSE 0

\* s.replace(a, b) for one-character a and b
Replace(s, a, b) == [i \in 1..Len(s) |-> IF s[i] = a THEN b ELSE s[i]]

\* s.replace(c, '')
Remove(s, c) == SelectSeq(s, LAMBDA x : x # c)

\* s.split(c)
RECURSIVE Split(_, _)
Split(s, c) ==
    IF ~Contains(s, c)
    THEN <<s>>
    ELSE <<SubSeq(s, 1, Find(s, c) - 1)>>
             \o Split(SubSeq(s, Find(s, c) + 1, Len(s)), c)

\* s.strip(): the model's only whitespace character is the space
RECURSIVE Strip(_)
Strip(s) ==
    IF s = <<>> THEN s
    ELSE IF Head(s) = " " THEN Strip(Tail(s))
    ELSE IF s[Len(s)] = " " THEN Strip(SubSeq(s, 1, Len(s) - 1))
    ELSE s

AllDigits(s) == \A i \in 1..Len(s) : s[i] \in Digits

\* the value of a sequence of digits
RECURSIVE DigitsValue(_)
DigitsValue(s) ==
    IF s = <<>> THEN 0
    ELSE 10 * DigitsValue(SubSeq(s, 1, Len(s) - 1)) + DigitVal(s[Len(s)])

\* str(n) of a Python int
RECURSIVE NatToStr(_)
NatToStr(n) ==
    IF n < 10 THEN <<DigitChar(n)>>
    ELSE NatToStr(n \div 10) \o <<DigitChar(n % 10)>>

IntToStr(n) == IF n < 0 THEN <<"-">> \o NatToStr(0 - n) ELSE NatToStr(n)

\* ------------------------------------------------------------------------
\* Floats
\* ------------------------------------------------------------------------

NaN == [kind |-> "nan"]
Inf(sign) == [kind |-> "inf", sign |-> sign]

RECURSIVE Fin(_, _)
Fin(m, e) ==
    IF m = 0 THEN [kind |-> "fin", m |-> 0, e |-> 0]
    ELSE IF m % 10 = 0 THEN Fin(m \div 10, e + 1)
    ELSE [kind |-> "fin", m |-> m, e |-> e]

Zero == Fin(0, 0)

IsFinite(x) == x.kind = "fin"

RECURSIVE Pow10(_)
Pow10(k) == IF k = 0 THEN 1 ELSE 10 * Pow10(k - 1)

RECURSIVE NumDigits(_)
NumDigits(n) == IF n < 10 THEN 1 ELSE 1 + NumDigits(n \div 10)

\* The largest double is 1.7976931348623157e308 and the smallest positive
\* one 5e-324.  The double nearest to m * 10^e (m # 0): an infinity beyond
\* the largest, zero below the smallest.  Exact for mantissas whose first
\* four significant digits are not 1797.
MaxExp10 == 308
MinExp10 == -324
Round(sign, m, e) ==
    LET k   == NumDigits(m)
        sci == k + e - 1
        d4  == IF k <= 4 THEN m * Pow10(4 - k) ELSE m \div Pow10(k - 4)
    IN  IF m = 0 THEN Zero
        ELSE IF sci > MaxExp10 \/ (sci = MaxExp10 /\ d4 >= 1798) THEN Inf(sign)
        ELSE IF sci < MinExp10 THEN Zero
        ELSE Fin(sign * m, e)

\* ------------------------------------------------------------------------
\* float(string): the result, or ValueError
\* ------------------------------------------------------------------------

ValueError == [kind |-> "ValueError"]

\* [sign] digits   (the exponent after 'e')
ExponentOk(s) ==
    LET body == IF s # <<>> /\ Head(s) \in {"+", "-"} THEN Tail(s) ELSE s
    IN  body # <<>> /\ AllDigits(body)

ExponentValue(s) ==
    IF Head(s) = "-" THEN 0 - DigitsValue(Tail(s))
    ELSE IF Head(s) = "+" THEN DigitsValue(Tail(s))
    ELSE DigitsValue(s)

\* digits [. [digits]] | . digits   (the part before the exponent)
MantissaOk(s) ==
    LET i  == Find(s, ".")
        ip == IF i = 0 THEN s ELSE SubSeq(s, 1, i - 1)
        fp == IF i = 0 THEN <<>> ELSE SubSeq(s, i + 1, Len(s))
    IN  AllDigits(ip) /\ AllDigits(fp) /\ (ip # <<>> \/ fp # <<>>)

ParseUnsigned(sign, s) ==
    LET i   == Find(s, "e")
        mp  == IF i = 0 THEN s ELSE SubSeq(s, 1, i - 1)
        ep  == IF i = 0 THEN <<>> ELSE SubSeq(s, i + 1, Len(s))
        dot == Find(mp, ".")
        ip  == IF dot = 0 THEN mp ELSE SubSeq(mp, 1, dot - 1)
        fp  == IF dot = 0 THEN <<>> ELSE SubSeq(mp, dot + 1, Len(mp))
    IN  IF s = <<"i", "n", "f">>
            \/ s = <<"i", "n", "f", "i", "n", "i", "t", "y">> THEN Inf(sign)
        ELSE IF s = <<"n", "a", "n">> THEN NaN
        ELSE IF ~MantissaOk(mp) THEN ValueError
        ELSE IF i # 0 /\ ~ExponentOk(ep) THEN ValueError
        ELSE Round(sign, DigitsValue(ip \o fp),
                   (IF i = 0 THEN 0 ELSE ExponentValue(ep)) - Len(fp))

ParseFloat(string) ==
    LET s == Strip(string)
    IN  IF s = <<>> THEN ValueError
        ELSE IF Head(s) = "-" THEN ParseUnsigned(-1, Tail(s))
        ELSE IF Head(s) = "+" THEN ParseUnsigned(1, Tail(s))
        ELSE ParseUnsigned(1, s)

\* ------------------------------------------------------------------------
\* JSON values, as request.get_json() returns them
\* ------------------------------------------------------------------------

JNone == [t |-> "None"]
JStr(s) == [t |-> "str", s |-> s]
JInt(n) == [t |-> "int", n |-> n]

\* str(value)
PyStr(v) ==
    CASE v.t = "str" -> v.s
      [] v.t = "int" -> IntToStr(v.n)

\* ------------------------------------------------------------------------
\* clean_value
\* ------------------------------------------------------------------------

\* lines 24-31 looking only at the group after the last '.'
SeparatorsLastGroup(string) ==
    IF Contains(string, ",") /\ ~Contains(string, ".")
    THEN Replace(string, ",", ".")
    ELSE IF Contains(string, ".")
    THEN LET parts == Split(string, ".")
         IN  IF Len(parts[Len(parts)]) = 3
             THEN Remove(string, ".")
             ELSE string
    ELSE string

\* lines 24-31: the string handed to float()
Separators(string) ==
    IF Contains(string, ",") /\ ~Contains(string, ".")
    THEN Replace(string, ",", ".")
    ELSE IF Contains(string, ".")
    THEN LET parts == Split(string, ".")
         IN  IF \A k \in 2..Len(parts) : Len(parts[k]) = 3
             THEN Remove(string, ".")
             ELSE string
    ELSE string

clean_value(v) ==
    IF v = JNone THEN Zero
    ELSE LET x == ParseFloat(Separators(Strip(PyStr(v))))
         IN  IF x = ValueError THEN Zero ELSE x

\* ------------------------------------------------------------------------
\* Float arithmetic and comparison (IEEE: every comparison with nan is false)
\* ------------------------------------------------------------------------

Min(a, b) == IF a < b THEN a ELSE b

\* the mantissa of finite x at exponent e <= x.e
Scaled(x, e) == x.m * Pow10(x.e - e)

\* x + y
FAdd(x, y) ==
    IF x.kind = "nan" \/ y.kind = "nan" THEN NaN
    ELSE IF x.kind = "inf" /\ y.kind = "inf"
    THEN IF x.sign = y.sign THEN x ELSE NaN
    ELSE IF x.kind = "inf" THEN x
    ELSE IF y.kind = "inf" THEN y
    ELSE LET e == Min(x.e, y.e) IN Fin(Scaled(x, e) + Scaled(y, e), e)

\* x < y
FLess(x, y) ==
    IF x.kind = "nan" \/ y.kind = "nan" THEN FALSE
    ELSE IF x.kind = "inf" THEN x.sign = -1 /\ ~(y.kind = "inf" /\ y.sign = -1)
    ELSE IF y.kind = "inf" THEN y.sign = 1
    ELSE LET e == Min(x.e, y.e) IN Scaled(x, e) < Scaled(y, e)

\* x == y
FEq(x, y) == x.kind # "nan" /\ y.kind # "nan" /\ x = y

\* x >= y
FGeq(x, y) == FLess(y, x) \/ FEq(x, y)

\* ------------------------------------------------------------------------
\* list.sort() of CPython for lists shorter than 64 (listobject.c):
\* count_run finds the initial run, binarysort inserts the rest; with
\* reverse=True the list is reversed before and after.  lt(x, y) is x < y
\* on the keys.  The items are [titulo, vpe] pairs, the key is vpe.
\* ------------------------------------------------------------------------

Reverse(a) == [i \in 1..Len(a) |-> a[Len(a) + 1 - i]]

KeyLess(x, y) == FLess(x.vpe, y.vpe)

\* count_run: the length of the run starting at a[1], and whether it is
\* strictly descending
RECURSIVE RunEnd(_, _, _)
RunEnd(a, n, descending) ==
    IF n = Len(a) THEN n
    ELSE IF KeyLess(a[n + 1], a[n]) = descending
    THEN RunEnd(a, n + 1, descending)
    ELSE n

RECURSIVE BinarySearch(_, _, _, _)
BinarySearch(a, pivot, l, r) ==
    IF l >= r THEN l
    ELSE LET p == l + ((r - l) \div 2)
         IN  IF KeyLess(pivot, a[p])
             THEN BinarySearch(a, pivot, l, p)
             ELSE BinarySearch(a, pivot, p + 1, r)

\* binarysort: a[1..start-1] is sorted; insert a[start], a[start+1], ...
RECURSIVE BinarySort(_, _)
BinarySort(a, start) ==
    IF start > Len(a) THEN a
    ELSE LET l == BinarySearch(a, a[start], 1, start)
         IN  BinarySort(SubSeq(a, 1, l - 1) \o <<a[start]>>
                            \o SubSeq(a, l, start - 1)
                            \o SubSeq(a, start + 1, Len(a)),
                        start + 1)

ListSort(a) ==
    IF Len(a) < 2 THEN a
    ELSE LET descending == KeyLess(a[2], a[1])
             n == RunEnd(a, 2, descending)
             run == IF descending
                    THEN Reverse(SubSeq(a, 1, n)) \o SubSeq(a, n + 1, Len(a))
                    ELSE a
         IN  BinarySort(run, n + 1)

\* sorted(items, key=lambda x: x[1], reverse=True)
SortedReverse(items) == Reverse(ListSort(Reverse(items)))

\* ------------------------------------------------------------------------
\* top_vpe_por_medio, lines 145-153: the ranking
\* ------------------------------------------------------------------------

\* the default title of line 148, written without its accent
SinTitulo == "Sin Titulo"

\* dict.get(key, default) of a JSON object (a function on its keys)
Get(d, key, default) == IF key \in DOMAIN d THEN d[key] ELSE default

\* the position of titulo among the keys of the dict, 0 when absent
KeyIndex(dict, titulo) ==
    IF \E i \in 1..Len(dict) : dict[i].titulo = titulo
    THEN CHOOSE i \in 1..Len(dict) : dict[i].titulo = titulo
    ELSE 0

\* lines 146-150: vpe_por_titulo, a dict in insertion order
RECURSIVE GroupByTitle(_, _)
GroupByTitle(noticias, dict) ==
    IF noticias = <<>> THEN dict
    ELSE LET n == Head(noticias)
             titulo == Get(n, "titulo", SinTitulo)
             vpe == clean_value(Get(n, "vpe", JInt(0)))
             i == KeyIndex(dict, titulo)
         IN  GroupByTitle(
                 Tail(noticias),
                 IF i = 0
                 THEN Append(dict, [titulo |-> titulo, vpe |-> FAdd(Zero, vpe)])
                 ELSE [dict EXCEPT ![i].vpe = FAdd(dict[i].vpe, vpe)])

TopLimit == 10

\* line 153: noticias_ordenadas
Ranking(noticias) ==
    LET ordered == SortedReverse(GroupByTitle(noticias, <<>>))
    IN  SubSeq(ordered, 1, Min(TopLimit, Len(ordered)))

\* ------------------------------------------------------------------------
\* JSON containers.  A JSON object is a function on its keys.
\* ------------------------------------------------------------------------

JList(items) == [t |-> "list", items |-> items]
JDict(d) == [t |-> "dict", d |-> d]
EmptyDict == JDict(<<>>)

IsDict(v) == v.t = "dict"
IsList(v) == v.t = "list"

\* `not v`
Falsy(v) ==
    \/ v = JNone
    \/ v.t = "int" /\ v.n = 0
    \/ v.t = "str" /\ v.s = <<>>
    \/ v.t = "list" /\ v.items = <<>>
    \/ v.t = "dict" /\ DOMAIN v.d = {}

\* ------------------------------------------------------------------------
\* The output directory GRAPH_DIR: for each file name the request that
\* wrote its present content, 0 when the file does not exist
\* ------------------------------------------------------------------------

MEDIOS == <<"Medios Digitales", "Prensa", "Radio", "TV">>

\* f"{medio}_raw"
RawKey(medio) ==
    CASE medio = "Medios Digitales" -> "Medios Digitales_raw"
      [] medio = "Prensa" -> "Prensa_raw"
      [] medio = "Radio" -> "Radio_raw"
      [] medio = "TV" -> "TV_raw"

\* f"top10_vpe_{medio.lower().replace(' ', '_')}.png"
TopFile(medio) ==
    CASE medio = "Medios Digitales" -> "top10_vpe_medios_digitales.png"
      [] medio = "Prensa" -> "top10_vpe_prensa.png"
      [] medio = "Radio" -> "top10_vpe_radio.png"
      [] medio = "TV" -> "top10_vpe_tv.png"

TopFiles == {TopFile(MEDIOS[i]) : i \in 1..Len(MEDIOS)}

ChartFiles ==
    {"vpe_barra.png", "vpe_torta.png", "impactos_barra.png",
     "impactos_torta.png"} \cup TopFiles

\* os.path.exists(os.path.join(GRAPH_DIR, nombre))
Exists(dir, nombre) == nombre \in DOMAIN dir /\ dir[nombre] # 0

\* _save that leaves a file that exists as it is
SaveKeepsOld(dir, filename, who) ==
    IF dir[filename] # 0 THEN dir ELSE [dir EXCEPT ![filename] = who]
\* _save: fig.savefig(path) creates the file or overwrites it
Save(dir, filename, who) == [dir EXCEPT ![filename] = who]

\* ------------------------------------------------------------------------
\* The renderers.  Each returns whether it raised, the directory after it
\* and the files it saved.  data is a dict in insertion order: a sequence
\* of [medio, valor].
\* ------------------------------------------------------------------------

Skipped(dir) == [raised |-> FALSE, dir |-> dir, saved |-> {}]
Raised(dir) == [raised |-> TRUE, dir |-> dir, saved |-> {}]
Saved(dir, filename, who) ==
    [raised |-> FALSE, dir |-> Save(dir, filename, who), saved |-> {filename}]

\* sum(data.values())
RECURSIVE SumValues(_)
SumValues(data) ==
    IF data = <<>> THEN Zero
    ELSE FAdd(SumValues(SubSeq(data, 1, Len(data) - 1)), data[Len(data)].valor)

\* lines 51 and 85: not data or sum(data.values()) == 0
NoData(data) == data = <<>> \/ FEq(SumValues(data), Zero)

\* int(x) raises ValueError on nan and OverflowError on an infinity
IntRaises(x) == ~IsFinite(x)

\* bar_chart without the guard of line 51
BarChartNoGuard(dir, who, data, filename) ==
    IF \E i \in 1..Len(data) : IntRaises(data[i].valor) THEN Raised(dir)
    ELSE Saved(dir, filename, who)
\* bar_chart: the label of line 72 takes int() of every bar height
bar_chart(dir, who, data, filename) ==
    IF NoData(data) THEN Skipped(dir)
    ELSE IF \E i \in 1..Len(data) : IntRaises(data[i].valor) THEN Raised(dir)
    ELSE Saved(dir, filename, who)

\* pie_chart: ax.pie raises ValueError on a negative wedge size, and the
\* legend of line 114 takes int() of every value
pie_chart(dir, who, data, filename) ==
    IF NoData(data) THEN Skipped(dir)
    ELSE IF \E i \in 1..Len(data) :
                IntRaises(data[i].valor) \/ FLess(data[i].valor, Zero)
    THEN Raised(dir)
    ELSE Saved(dir, filename, who)

\* top_vpe_por_medio.  datos is a JSON object.  .get on a value that is
\* not an object raises AttributeError; iterating a truthy noticias that
\* is not a list of objects raises too; the label of line 193 takes int()
\* of every bar width.
top_vpe_por_medio(dir, who, datos, medio) ==
    LET raw == Get(datos.d, RawKey(medio), EmptyDict)
        noticias == Get(raw.d, "noticias", JList(<<>>))
        items == [i \in 1..Len(noticias.items) |-> noticias.items[i].d]
        noticias_ordenadas == Ranking(items)
    IN  IF ~IsDict(raw) THEN Raised(dir)
        ELSE IF Falsy(noticias) THEN Skipped(dir)
        ELSE IF ~IsList(noticias) THEN Raised(dir)
        ELSE IF \E i \in 1..Len(noticias.items) : ~IsDict(noticias.items[i])
        THEN Raised(dir)
        ELSE IF noticias_ordenadas = <<>> THEN Skipped(dir)
        ELSE IF \E i \in 1..Len(noticias_ordenadas) :
                    IntRaises(noticias_ordenadas[i].vpe)
        THEN Raised(dir)
        ELSE Saved(dir, TopFile(medio), who)

\* ------------------------------------------------------------------------
\* generar_graficos
\* ------------------------------------------------------------------------

\* `key in x`: True or False, or TypeError when x is not a container.  No
\* string and no list of the model holds the key.
In(key, x) ==
    IF IsDict(x) THEN (IF key \in DOMAIN x.d THEN "True" ELSE "False")
    ELSE IF x.t \in {"str", "list"} THEN "False"
    ELSE "TypeError"

\* lines 231-237 (raw = FALSE, field = "total_vpe") and 249-255 (raw =
\* TRUE, field = "total_vc"): the dict of the channels' totals
RECURSIVE Totals(_, _, _, _, _)
Totals(datos, raw, field, i, data) ==
    IF i > Len(MEDIOS) THEN [raised |-> FALSE, data |-> data]
    ELSE IF ~IsDict(datos) THEN [raised |-> TRUE, data |-> data]
    ELSE LET medio == MEDIOS[i]
             medio_data == Get(datos.d, IF raw THEN RawKey(medio) ELSE medio,
                               EmptyDict)
             has == In(field, medio_data)
         IN  IF has = "TypeError" THEN [raised |-> TRUE, data |-> data]
             ELSE IF has = "True"
             THEN Totals(datos, raw, field, i + 1,
                         Append(data, [medio |-> medio,
                                       valor |-> clean_value(medio_data.d[field])]))
             ELSE Totals(datos, raw, field, i + 1, data)

data_vpe(datos) == Totals(datos, FALSE, "total_vpe", 1, <<>>)
data_imp(datos) == Totals(datos, TRUE, "total_vc", 1, <<>>)

\* The handler's state between two renderer calls
Started(dir) ==
    [raised |-> FALSE, dir |-> dir, archivos |-> <<>>, escritos |-> {}]

After(st, r, urls) ==
    [raised   |-> r.raised,
     dir      |-> r.dir,
     archivos |-> IF r.raised THEN st.archivos ELSE st.archivos \o urls,
     escritos |-> st.escritos \cup r.saved]

\* lines 231-240 and 249-257: the totals, then bar_chart
BarStage(st, who, totals, filename) ==
    IF totals.raised THEN [st EXCEPT !.raised = TRUE]
    ELSE After(st, bar_chart(st.dir, who, totals.data, filename), <<>>)

\* lines 241-246 and 258-263: pie_chart, then the two URLs
PieStage(st, who, totals, barra, torta) ==
    After(st, pie_chart(st.dir, who, totals.data, torta),
          IF totals.data # <<>> THEN <<barra, torta>> ELSE <<>>)

\* lines 267-270 with the file looked for before the call
TopStageCheckFirst(st, who, datos, medio) ==
    Only({After(st, r, IF Exists(st.dir, TopFile(medio))
                       THEN <<TopFile(medio)>> ELSE <<>>) :
             r \in {top_vpe_por_medio(st.dir, who, datos, medio)}})
\* lines 267-270: top_vpe_por_medio, then the URL of the file if it exists
TopStage(st, who, datos, medio) ==
    Only({After(st, r, IF Exists(r.dir, TopFile(medio))
                       THEN <<TopFile(medio)>> ELSE <<>>) :
             r \in {top_vpe_por_medio(st.dir, who, datos, medio)}})

\* The renderer calls of the handler, in order
Etapas ==
    <<"vpe_barra", "vpe_torta", "impactos_barra", "impactos_torta">>
        \o [i \in 1..Len(MEDIOS) |-> "top"]

Etapa(k, st, who, datos) ==
    CASE k = 1 -> BarStage(st, who, data_vpe(datos), "vpe_barra.png")
      [] k = 2 -> PieStage(st, who, data_vpe(datos),
                           "vpe_barra.png", "vpe_torta.png")
      [] k = 3 -> BarStage(st, who, data_imp(datos), "impactos_barra.png")
      [] k = 4 -> PieStage(st, who, data_imp(datos),
                           "impactos_barra.png", "impactos_torta.png")
      [] OTHER -> TopStage(st, who, datos, MEDIOS[k - 4])

\* lines 230-270 run without interruption from stage k
RECURSIVE RunFrom(_, _, _, _)
RunFrom(k, st, who, datos) ==
    IF st.raised \/ k > Len(Etapas) THEN st
    ELSE Only({RunFrom(k + 1, next, who, datos) :
                  next \in {Etapa(k, st, who, datos)}})

\* The request body: not valid JSON, or a JSON value
Invalid == [t |-> "invalid"]

\* lines 210-225.  request.get_json() raises BadRequest on a body that is
\* not valid JSON, which line 278 turns into 500.  status 0: go on with
\* datos.
Recibir(body) ==
    IF body = Invalid THEN [status |-> 500, datos |-> JNone]
    ELSE IF Falsy(body) THEN [status |-> 400, datos |-> JNone]
    ELSE IF IsList(body) THEN [status |-> 0, datos |-> body.items[1]]
    ELSE IF IsDict(body) THEN [status |-> 0, datos |-> body]
    ELSE [status |-> 400, datos |-> JNone]

\* lines 272-280
Status(st) == IF st.raised THEN 500 ELSE 200

\* The whole of generar_graficos on `body` with the directory `dir`
Respuesta(st) ==
    [status |-> Status(st),
     archivos |-> IF st.raised THEN <<>> ELSE st.archivos,
     escritos |-> st.escritos, dir |-> st.dir]

generar_graficos(dir, who, body) ==
    LET rec == Recibir(body)
    IN  IF rec.status # 0
        THEN [status |-> rec.status, archivos |-> <<>>, escritos |-> {},
              dir |-> dir]
        ELSE Only({Respuesta(st) :
                      st \in {RunFrom(1, Started(dir), who, rec.datos)}})

\* servir_grafico
servir_grafico(dir, nombre) ==
    IF Exists(dir, nombre)
    THEN [status |-> 200, mimetype |-> "image/png"]
    ELSE [status |-> 404, mimetype |-> "application/json"]

\* ------------------------------------------------------------------------
\* Inputs
\* ------------------------------------------------------------------------

\* the functions from a subset of S to V
PartialFns(S, V) == UNION {[D -> V] : D \in SUBSET S}

NoFields == [k \in {} |-> JNone]

\* strings of separators and digits, for clean_value
MaxStrLen == 7
SepAlphabet == {"0", "1", ".", ","}
SepStrings == UNION {[1..k -> SepAlphabet] : k \in 0..MaxStrLen}

SpecialStrings ==
    { <<"i", "n", "f">>, <<"-", "i", "n", "f">>, <<"n", "a", "n">>,
      <<"i", "n", "f", "i", "n", "i", "t", "y">>,
      <<"1", "e", "9", "9", "9">>, <<"-", "1", "e", "9", "9", "9">>,
      <<"1", "e", "-", "9", "9", "9">>, <<"1", "e", "3">>,
      <<"a", "b", "c">>, <<" ", "1", "2", " ">>, <<"-", "5">>,
      <<"1", ".", "2", "3", "4", ",", "5">>,
      <<"1", ",", "2", "3", "4", ".", "5", "6", "7">>,
      <<"1", "2", "3", ",", "4", "5">>,
      <<"1", ".", "2", "3", "4", ".", "5", "6", "7">> }

CleanInputs ==
    {JNone, JInt(0), JInt(12), JInt(-3)}
        \cup {JStr(s) : s \in SepStrings \cup SpecialStrings}

\* article records, for the ranking: up to MaxNoticias free records, then
\* none or the records of Base (one more title than the ranking keeps),
\* then up to one more free record
MaxNoticias == 2
FreeTitles == {"A", "a", "B"}
FreeVpes == {JStr(<<"1">>), JStr(<<"2">>), JStr(<<"n", "a", "n">>)}
FreeArticles ==
    {[titulo |-> t, vpe |-> v] : t \in FreeTitles, v \in FreeVpes}
        \cup {[titulo |-> t] : t \in FreeTitles}
        \cup {[vpe |-> v] : v \in FreeVpes}
        \cup {NoFields}
BaseTitles ==
    <<"T01", "T02", "T03", "T04", "T05", "T06", "T07", "T08", "T09", "T10",
      "T11">>
Base ==
    [i \in 1..Len(BaseTitles) |->
        [titulo |-> BaseTitles[i],
         vpe |-> IF i % 2 = 0 THEN JStr(<<"2">>) ELSE JStr(<<"1">>)]]
NoticiasInputs ==
    {pre \o mid \o suf :
        pre \in UNION {[1..k -> FreeArticles] : k \in 0..MaxNoticias},
        mid \in {<<>>, Base},
        suf \in UNION {[1..k -> FreeArticles] : k \in 0..1}}

\* request bodies, for the handlers
InputMedios == {"Prensa", "TV"}

DocOf(vpe, vc, nots) ==
    LET raws == DOMAIN vc \cup DOMAIN nots
        fields(m) ==
            [f \in (IF m \in DOMAIN vc THEN {"total_vc"} ELSE {})
                     \cup (IF m \in DOMAIN nots THEN {"noticias"} ELSE {}) |->
                IF f = "total_vc" THEN vc[m] ELSE nots[m]]
    IN  JDict([k \in DOMAIN vpe \cup {RawKey(m) : m \in raws} |->
                IF k \in DOMAIN vpe
                THEN JDict([f \in {"total_vpe"} |-> vpe[k]])
                ELSE JDict(fields(CHOOSE m \in raws : RawKey(m) = k))])

Articulo(titulo, vpe) == JDict([titulo |-> titulo, vpe |-> JStr(vpe)])

Tv(v) == [m \in {"TV"} |-> v]
Unas == JList(<<Articulo("A", <<"7">>), Articulo("B", <<"7">>)>>)
Ceros == JList(<<Articulo("A", <<"0">>)>>)

Docs ==
    {DocOf(v, NoFields, NoFields) :
        v \in PartialFns(InputMedios, {JStr(<<"0">>), JStr(<<"5">>)})}
    \cup {DocOf([m \in InputMedios |->
                    IF m = "TV" THEN JStr(<<"-", "5">>) ELSE JStr(<<"5">>)],
                NoFields, NoFields),
          DocOf(Tv(JStr(<<"-", "5">>)), NoFields, NoFields)}
    \cup {DocOf(NoFields, Tv(c), NoFields) :
             c \in {JStr(<<"0">>), JStr(<<"3">>)}}
    \cup {DocOf(NoFields, NoFields, n) :
             n \in PartialFns(InputMedios, {JList(<<>>), Unas})}
    \cup {DocOf(NoFields, NoFields, Tv(Ceros))}
    \cup {DocOf(Tv(v), Tv(JStr(<<"3">>)), Tv(Unas)) :
             v \in {JStr(<<"5">>), JStr(<<"n", "a", "n">>)}}
    \cup {JDict([k \in {"TV"} |-> JInt(5)]),
          JDict([k \in {"TV_raw"} |-> JInt(5)]),
          JDict([k \in {"TV_raw"} |->
                    JDict([f \in {"noticias"} |-> JList(<<JInt(5)>>)])]),
          JDict([k \in {"otro"} |-> JInt(1)])}

Bodies ==
    Docs
    \cup {JList(<<d>>) :
             d \in {EmptyDict, JDict([k \in {"otro"} |-> JInt(1)]),
                    DocOf(Tv(JStr(<<"5">>)), NoFields, NoFields),
                    JInt(5), JNone, JStr(<<"a", "b", "c">>)}}
    \cup {JNone, JInt(0), JInt(5), JStr(<<>>), JStr(<<"a", "b", "c">>),
          JList(<<>>), Invalid}

\* the names of the directory, and those GET asks for
Archivos == ChartFiles \cup {"otro.png"}
Nombres == {"vpe_barra.png", "vpe_torta.png", "top10_vpe_tv.png", "otro.png"}

\* concurrent requests
MaxRequests == 2
Requests == 1..MaxRequests
ConcBodies ==
    {DocOf(Tv(JStr(<<"5">>)), NoFields, NoFields),
     DocOf(NoFields, NoFields, Tv(Unas)),
     DocOf(Tv(JStr(<<"5">>)), NoFields, Tv(Unas))}

\* renderer calls: a dict of channel totals, or the articles of TV_raw
MaxArticulos == 2
TotalValues ==
    {clean_value(JStr(s)) :
        s \in {<<"0">>, <<"5">>, <<"-", "5">>, <<"a", "b", "c">>,
               <<"n", "a", "n">>}}
DataInputs ==
    {SelectSeq([i \in 1..Len(MEDIOS) |->
                   IF MEDIOS[i] \in DOMAIN f
                   THEN [medio |-> MEDIOS[i], valor |-> f[MEDIOS[i]]]
                   ELSE [medio |-> ""]],
               LAMBDA x : x.medio # "") :
        f \in PartialFns({MEDIOS[i] : i \in 1..Len(MEDIOS)}, TotalValues)}
ArticuloInputs ==
    {Articulo(t, v) : t \in {"A", "B"},
                      v \in {<<"0">>, <<"7">>, <<"a", "b", "c">>}}
        \cup {JDict([titulo |-> "A"]), JDict(NoFields)}
TopInputs ==
    {JDict(NoFields), DocOf(NoFields, Tv(JStr(<<"3">>)), NoFields)}
        \cup {DocOf(NoFields, NoFields, Tv(JList(l))) :
                 l \in UNION {[1..k -> ArticuloInputs] : k \in 0..MaxArticulos}}
Llamadas ==
    {[fn |-> fn, data |-> d] : fn \in {"bar_chart", "pie_chart"},
                               d \in DataInputs}
        \cup {[fn |-> "top_vpe_por_medio", datos |-> d] : d \in TopInputs}

\* ------------------------------------------------------------------------
\* States
\* ------------------------------------------------------------------------

Pending == [kind |-> "pending"]
EmptyDir == [f \in Archivos |-> 0]
NoPost == [status |-> 0]
NoGet == [status |-> 0]
Idle == [pc |-> 0]
Done == Len(Etapas) + 1

NoClean == value = JNone /\ result = Pending
NoRank == articulos = <<>> /\ ordenadas = Pending
NoRender == llamada = Pending /\ efecto = Pending
NoServer ==
    /\ post = NoPost /\ get = NoGet
    /\ hilos = [r \in Requests |-> Idle] /\ ultimo = EmptyDir

\* ------------------------------------------------------------------------
\* clean_value applied to one input
\* ------------------------------------------------------------------------

InitClean ==
    /\ value \in CleanInputs /\ result = Pending
    /\ NoRank /\ NoRender /\ graficos = EmptyDir /\ NoServer

Clean ==
    /\ result = Pending
    /\ result' = clean_value(value)
    /\ UNCHANGED <<value, articulos, ordenadas, llamada, efecto, graficos,
                   post, get, hilos, ultimo>>

SpecClean == InitClean /\ [][Clean]_vars

\* ------------------------------------------------------------------------
\* The ranking of top_vpe_por_medio applied to one list of articles
\* ------------------------------------------------------------------------

InitTop ==
    /\ articulos \in NoticiasInputs /\ ordenadas = Pending
    /\ NoClean /\ NoRender /\ graficos = EmptyDir /\ NoServer

Rank ==
    /\ ordenadas = Pending
    /\ ordenadas' = [kind |-> "done", lista |-> Ranking(articulos)]
    /\ UNCHANGED <<value, result, articulos, llamada, efecto, graficos,
                   post, get, hilos, ultimo>>

SpecTop == InitTop /\ [][Rank]_vars

\* ------------------------------------------------------------------------
\* One renderer call, as request 2, on the empty directory or on one that
\* holds every chart file, written by request 1
\* ------------------------------------------------------------------------

FullDir == [f \in Archivos |-> IF f \in ChartFiles THEN 1 ELSE 0]

InitRender ==
    /\ llamada \in Llamadas /\ efecto = Pending
    /\ graficos \in {EmptyDir, FullDir}
    /\ NoClean /\ NoRank /\ NoServer

Render ==
    /\ efecto = Pending
    /\ \E r \in {CASE llamada.fn = "bar_chart" ->
                        bar_chart(graficos, 2, llamada.data, "vpe_barra.png")
                   [] llamada.fn = "pie_chart" ->
                        pie_chart(graficos, 2, llamada.data, "vpe_torta.png")
                   [] llamada.fn = "top_vpe_por_medio" ->
                        top_vpe_por_medio(graficos, 2, llamada.datos, "TV")} :
          /\ graficos' = r.dir
          /\ efecto' = [kind |-> "done", raised |-> r.raised,
                        saved |-> r.saved, before |-> graficos]
    /\ UNCHANGED <<value, result, articulos, ordenadas, llamada, post, get,
                   hilos, ultimo>>

SpecRender == InitRender /\ [][Render]_vars

\* ------------------------------------------------------------------------
\* The server handling one request at a time
\* ------------------------------------------------------------------------

Init ==
    /\ NoClean /\ NoRank /\ NoRender
    /\ graficos = EmptyDir /\ NoServer

\* POST /.  repetido: the request before it was a POST of the same body.
Post(body) ==
    \E r \in {generar_graficos(graficos, 1, body)} :
        /\ graficos' = r.dir
        /\ post' = [body |-> body, status |-> r.status,
                    archivos |-> r.archivos, escritos |-> r.escritos,
                    repetido |-> post.status # 0 /\ get = NoGet
                                    /\ post.body = body]
        /\ get' = NoGet
        /\ UNCHANGED <<value, result, articulos, ordenadas, llamada, efecto,
                       hilos, ultimo>>

\* GET /grafico/<nombre>
GetGrafico(nombre) ==
    \E r \in {servir_grafico(graficos, nombre)} :
        /\ get' = [nombre |-> nombre, status |-> r.status,
                   mimetype |-> r.mimetype]
        /\ UNCHANGED <<value, result, articulos, ordenadas, llamada, efecto,
                       graficos, post, hilos, ultimo>>

Next ==
    \/ \E body \in Bodies : Post(body)
    \/ \E nombre \in Nombres : GetGrafico(nombre)

Spec == Init /\ [][Next]_vars

\* ------------------------------------------------------------------------
\* The server handling MaxRequests requests concurrently (app.run serves
\* each request in its own thread): a request runs one renderer call at a
\* time, and the calls of different requests interleave
\* ------------------------------------------------------------------------

\* lines 209-228
Llegar(r, body) ==
    /\ hilos[r].pc = 0
    /\ \E rec \in {Recibir(body)} :
          hilos' = [hilos EXCEPT ![r] =
              IF rec.status # 0
              THEN [pc |-> Done, status |-> rec.status, datos |-> JNone,
                    archivos |-> <<>>, escritos |-> {}]
              ELSE [pc |-> 1, status |-> 0, datos |-> rec.datos,
                    archivos |-> <<>>, escritos |-> {}]]
    /\ UNCHANGED <<value, result, articulos, ordenadas, llamada, efecto,
                   graficos, post, get, ultimo>>

\* one renderer call of request r, and the lines up to the next one
Paso(r) ==
    /\ hilos[r].pc \in 1..Len(Etapas)
    /\ \E new \in {Etapa(hilos[r].pc,
                         [raised |-> FALSE, dir |-> graficos,
                          archivos |-> hilos[r].archivos,
                          escritos |-> hilos[r].escritos],
                         r, hilos[r].datos)} :
       LET h == hilos[r]
           last == new.raised \/ h.pc = Len(Etapas)
       IN  /\ graficos' = new.dir
           /\ ultimo' = [f \in Archivos |->
                            IF f \in new.escritos \ h.escritos THEN r
                            ELSE ultimo[f]]
           /\ hilos' = [hilos EXCEPT ![r] =
                   [pc |-> IF last THEN Done ELSE h.pc + 1,
                    status |-> IF last THEN Status(new) ELSE 0,
                    datos |-> h.datos,
                    archivos |-> IF new.raised THEN <<>> ELSE new.archivos,
                    escritos |-> new.escritos]]
    /\ UNCHANGED <<value, result, articulos, ordenadas, llamada, efecto,
                   post, get>>

NextConc ==
    \/ \E r \in Requests, body \in ConcBodies : Llegar(r, body)
    \/ \E r \in Requests : Paso(r)

SpecConc == Init /\ [][NextConc]_vars

\* ------------------------------------------------------------------------
\* Properties
\* ------------------------------------------------------------------------

InSeq(x, s) == \E i \in 1..Len(s) : s[i] = x

\* the document the handler works on: the first element of an array
Effective(body) ==
    IF IsList(body) /\ body.items # <<>> THEN body.items[1] ELSE body

\* C1: when POST / answers 200, every file listed in archivos_generados
\* exists in the output directory, and a GET of a listed file that follows
\* the POST answers 200 image/png.
C1_ListedFilesExist ==
    post.status = 200 =>
        /\ \A i \in 1..Len(post.archivos) : Exists(graficos, post.archivos[i])
        /\ (get.status # 0 /\ InSeq(get.nombre, post.archivos)) =>
               (get.status = 200 /\ get.mimetype = "image/png")

\* no channel of datos has `field` (under the raw key when raw)
SinTotal(datos, raw, field) ==
    \A i \in 1..Len(MEDIOS) :
        LET md == Get(datos.d, IF raw THEN RawKey(MEDIOS[i]) ELSE MEDIOS[i],
                      EmptyDict)
        IN  ~IsDict(md) \/ field \notin DOMAIN md.d

\* datos has no noticias for medio, or an empty list
SinNoticias(datos, medio) ==
    LET raw == Get(datos.d, RawKey(medio), EmptyDict)
    IN  IsDict(raw) /\ Falsy(Get(raw.d, "noticias", JList(<<>>)))

\* C2: after any earlier requests, a chart for which the payload of the
\* current request has no data (no total_vpe, no total_vc, no noticias
\* under '<channel>_raw') is not listed in the current response.
C2_EmptyDataNotListed ==
    post.status = 200 =>
        LET datos == Effective(post.body)
        IN  /\ SinTotal(datos, FALSE, "total_vpe") =>
                   ~InSeq("vpe_barra.png", post.archivos)
                       /\ ~InSeq("vpe_torta.png", post.archivos)
            /\ SinTotal(datos, TRUE, "total_vc") =>
                   ~InSeq("impactos_barra.png", post.archivos)
                       /\ ~InSeq("impactos_torta.png", post.archivos)
            /\ \A i \in 1..Len(MEDIOS) :
                   SinNoticias(datos, MEDIOS[i]) =>
                       ~InSeq(TopFile(MEDIOS[i]), post.archivos)

\* a JSON value that is neither an object nor a non-empty array whose
\* first element is an object
WrongShape(body) ==
    /\ body # Invalid
    /\ ~IsDict(body)
    /\ ~(IsList(body) /\ body.items # <<>> /\ IsDict(body.items[1]))

\* C3: POST / answers 400 when the top-level JSON value is neither an
\* object nor a non-empty array whose first element is an object.
C3_WrongShapeIs400 ==
    (post.status # 0 /\ WrongShape(post.body)) => post.status = 400

\* the effective document is an object with no key of the four channels
NoChannelData(body) ==
    LET datos == Effective(body)
    IN  /\ body # Invalid
        /\ IsDict(datos)
        /\ \A i \in 1..Len(MEDIOS) :
               MEDIOS[i] \notin DOMAIN datos.d
                   /\ RawKey(MEDIOS[i]) \notin DOMAIN datos.d

\* C4: POST / answers 400 when the effective document carries no channel
\* data, whichever form it takes: {}, [{}] or an object with unrelated keys.
C4_EmptyDocIs400 ==
    (post.status # 0 /\ NoChannelData(post.body)) => post.status = 400

\* a renderer call's input
AllZero(data) == \A i \in 1..Len(data) : FEq(data[i].valor, Zero)
ArticulosDe(datos) ==
    Get(Get(datos.d, "TV_raw", EmptyDict).d, "noticias", JList(<<>>)).items
AllVpeZero(datos) ==
    \A i \in 1..Len(ArticulosDe(datos)) :
        clean_value(Get(ArticulosDe(datos)[i].d, "vpe", JInt(0))) = Zero
IsChart(c) == c.fn \in {"bar_chart", "pie_chart"}
NoEffect == ~efecto.raised /\ efecto.saved = {} /\ graficos = efecto.before

C6_AlwaysFinite ==
    result.kind # "pending" =>
        IsFinite(result) /\ (value = JNone => result = Zero)

\* the ranking's input, read without the code's dict
TituloDe(n) == Get(n, "titulo", SinTitulo)
Titulos == {TituloDe(articulos[i]) : i \in 1..Len(articulos)}
FirstSeen(t) ==
    CHOOSE i \in 1..Len(articulos) :
        TituloDe(articulos[i]) = t
            /\ \A j \in 1..(i - 1) : TituloDe(articulos[j]) # t
\* the sum of the normalised vpe of the first i records titled t
RECURSIVE SumaDe(_, _)
SumaDe(t, i) ==
    IF i = 0 THEN Zero
    ELSE IF TituloDe(articulos[i]) = t
    THEN FAdd(SumaDe(t, i - 1), clean_value(Get(articulos[i], "vpe", JInt(0))))
    ELSE SumaDe(t, i - 1)
Suma(t) == SumaDe(t, Len(articulos))
Listed == {ordenadas.lista[i].titulo : i \in 1..Len(ordenadas.lista)}

RankingLaw ==
    LET o == ordenadas.lista
    IN  /\ Len(o) = Min(TopLimit, Cardinality(Titulos))
        /\ \A i \in 1..Len(o) : o[i].titulo \in Titulos
                                    /\ o[i].vpe = Suma(o[i].titulo)
        /\ \A i, j \in 1..Len(o) : i < j => o[i].titulo # o[j].titulo
        /\ \A i, j \in 1..Len(o) : i < j => FGeq(o[i].vpe, o[j].vpe)
        /\ \A t \in Titulos \ Listed :
               \A i \in 1..Len(o) : FGeq(o[i].vpe, Suma(t))
        /\ \A i, j \in 1..Len(o) :
               (i < j /\ FEq(o[i].vpe, o[j].vpe)) =>
                   FirstSeen(o[i].titulo) < FirstSeen(o[j].titulo)
        /\ \A t \in Titulos \ Listed :
               \A i \in 1..Len(o) :
                   FEq(o[i].vpe, Suma(t)) => FirstSeen(o[i].titulo) < FirstSeen(t)

\* C7: for every list of article records the ranking has one entry per
\* title (exact match, the placeholder for a missing title) with the sum of
\* its records' normalised vpe, at most 10 entries, sorted by descending
\* sum, each at least the sum of every group left out, equal sums in
\* first-seen order.
C7_Ranking == ordenadas.kind = "done" => RankingLaw

\* C7 on the lists whose sums are all finite
C7_RankingOfFiniteSums ==
    (ordenadas.kind = "done" /\ \A t \in Titulos : IsFinite(Suma(t))) =>
        RankingLaw

\* C8: a POST / of the same payload as the POST before it returns the same
\* status and the same archivos_generados, and writes the same files.
C8_Idempotent ==
    [][(post.status # 0 /\ post'.body = post.body) =>
           /\ post'.status = post.status
           /\ post'.archivos = post.archivos
           /\ post'.escritos = post.escritos]_vars

\* C8 witness: a payload was posted twice in a row, answered 200 with files
\* listed and written.
C8_Witness ==
    /\ post.status = 200 /\ post.repetido
    /\ post.archivos # <<>> /\ post.escritos # {}

\* digit groups separated by c: at least two, none empty
IsGroups(s, c) ==
    LET parts == Split(s, c)
    IN  Len(parts) >= 2
            /\ \A k \in 1..Len(parts) : parts[k] # <<>> /\ AllDigits(parts[k])
LastGroup(s, c) == Split(s, c)[Len(Split(s, c))]
Stripped(s) == Fin(DigitsValue(Remove(s, ".")), 0)
CommaDecimal(s) ==
    IsGroups(s, ",") /\ Len(Split(s, ",")) = 2 =>
        result = Fin(DigitsValue(Remove(s, ",")), 0 - Len(LastGroup(s, ",")))

\* C9 as claimed: on digit groups separated by '.', whenever the group
\* after the last '.' has three digits the result is the value of the
\* concatenated digits; on digits with one ',' and no '.', the ',' is the
\* decimal point.
C9_LastGroupOfThree ==
    (result.kind # "pending" /\ value.t = "str") =>
        /\ (IsGroups(value.s, ".") /\ Len(LastGroup(value.s, ".")) = 3) =>
               result = Stripped(value.s)
        /\ CommaDecimal(value.s)

\* C9 as amended: on digit groups separated by '.', when every group after
\* the first has three digits the result is the value of the concatenated
\* digits; when the last group has three digits and an earlier one after
\* the first has not, the result is 0.0; on digits with one ',' and no '.',
\* the ',' is the decimal point.
C9_AllGroupsOfThree ==
    (result.kind # "pending" /\ value.t = "str") =>
        LET parts == Split(value.s, ".")
            all3 == \A k \in 2..Len(parts) : Len(parts[k]) = 3
        IN  /\ (IsGroups(value.s, ".") /\ all3) => result = Stripped(value.s)
            /\ (IsGroups(value.s, ".") /\ Len(LastGroup(value.s, ".")) = 3
                    /\ ~all3) => result = Zero
            /\ CommaDecimal(value.s)

\* C9 witness: clean_value("1.234.567") returned 1234567.0
C9_Witness ==
    /\ value = JStr(<<"1", ".", "2", "3", "4", ".", "5", "6", "7">>)
    /\ result = Fin(1234567, 0)

AllDone ==
    /\ \A r \in Requests : hilos[r].pc \in {0, Done}
    /\ \E r \in Requests : hilos[r].pc = Done
Writers == {graficos[f] : f \in Archivos} \ {0}

====
